---- MODULE Spec2Model ----
(***************************************************************************)
(* A model of the fitness-coach planning core: the Plan Store              *)
(* (storage/persistence.py), the planning stages (agents/*.py), the        *)
(* workflow graph (core/graph.py) and the Coach Facade (core/coach.py).    *)
(*                                                                         *)
(* Python dictionaries are functions from keys to values; an optional      *)
(* value (None or a value) is a sequence of length 0 or 1.                 *)
(***************************************************************************)
EXTENDS Integers, Sequences, FiniteSets, TLC

VARIABLES
    now,          \* the wall clock, in ticks (datetime.now())
    profile,      \* profiles/profile_<user>.json: None or the stored profile
    macros,       \* macro_plans/: plan_id -> stored macro plan record
    schedules,    \* schedules/: schedule_id -> stored schedule record
    feedback,     \* feedback/: the stored feedback records
    lastOp,       \* history: the last Plan Store call made directly
    state,        \* the PlanState of the run
    node,         \* the node of the graph that runs next
    status,       \* idle, running, end, the exception that ended the run, returned
    executed,     \* history: the nodes the run executed, in order
    call,         \* the facade call in progress
    ret,          \* what the facade call returned
    lastMicro,    \* history: what the run's last Micro Planning did
    lastAnswer,   \* history: the service's answer in the stage executed last
    procs,        \* the Plan Store calls in flight, file access by file access
    search        \* a slot search of the Availability Provider and its result

----------------------------------------------------------------------------
(* Bounds of the model *)

\* the clock stops the model at this tick
MaxClock == 9
\* ticks per wall-clock second: ids are derived from the second
TicksPerSecond == 2
\* schedule ids a caller can pass explicitly are 0..MaxCallerId
MaxCallerId == 0

\* an answer of the Text Completion Service has at most this many tokens
MaxRespLen == 3

(* Program constants *)

\* the recursion limit of a graph invoked with no config
RecursionLimit == 25

\* schedule_data[4:] is deleted
KeepSchedules == 4

\* no Plan Store call is in flight
NoProcs == <<>>

\* no slot search was made
NoSearch == <<>>

----------------------------------------------------------------------------
(* Optional values and dictionaries *)

None == <<>>
Some(v) == <<v>>
IsNone(o) == Len(o) = 0
Val(o) == o[1]

\* d[k] = v, adding the key if absent (a file written, a dict entry set)
Put(d, k, v) == [x \in (DOMAIN d) \cup {k} |-> IF x = k THEN v ELSE d[x]]
\* d restricted to the keys in S
Restrict(d, S) == [x \in S |-> d[x]]
EmptyDict == [x \in {} |-> ""]

----------------------------------------------------------------------------
(* The clock *)

\* strftime('%Y%m%d_%H%M%S'): an id names the second, not the instant
IdAt(t) == t \div TicksPerSecond

----------------------------------------------------------------------------
(* Plan Store: macro plans *)

\* the loop that rewrites every stored macro plan as inactive
DeactivateMacroPlans(ms) == [i \in DOMAIN ms |-> [ms[i] EXCEPT !.status = "inactive"]]

\* a bug that forgets the deactivation loop
SaveMacroPlanNoDeactivate(ms, text, t) ==
    Put(ms, IdAt(t),
        [plan_id |-> IdAt(t), macro_plan |-> text, created_at |-> t, status |-> "active"])

\* save_macro_plan: the macro plan files after the call made at instant t
SaveMacroPlan(ms, text, t) ==
    Put(DeactivateMacroPlans(ms), IdAt(t),
        [plan_id |-> IdAt(t), macro_plan |-> text, created_at |-> t, status |-> "active"])

\* get_active_macro_plan: the first active file in glob order, which is
\* unspecified: every active record is a possible result; None if there is none
GetActiveMacroPlan(ms) ==
    LET act == {i \in DOMAIN ms : ms[i].status = "active"}
    IN  IF act = {} THEN {None} ELSE {Some(ms[i]) : i \in act}

----------------------------------------------------------------------------
(* Plan Store: weekly schedules *)

\* the stored records sorted by created_at, newest first, cut to the first
\* KeepSchedules: a record is kept when fewer than KeepSchedules are newer
NewerThan(ss, i) == {j \in DOMAIN ss : ss[j].created_at > ss[i].created_at}

\* a bug that keeps one schedule more
CleanupKeepsOneMore(ss) ==
    Restrict(ss, {i \in DOMAIN ss : Cardinality(NewerThan(ss, i)) < KeepSchedules + 1})

\* _cleanup_old_schedules
CleanupOldSchedules(ss) ==
    Restrict(ss, {i \in DOMAIN ss : Cardinality(NewerThan(ss, i)) < KeepSchedules})

\* schedule_id of the record save_weekly_schedule writes (generated if absent)
ScheduleIdFor(sched, t) ==
    IF IsNone(sched.schedule_id) THEN IdAt(t) ELSE Val(sched.schedule_id)

\* the schedule dict after save_weekly_schedule filled in the id and the
\* active macro plan's reference
FilledSchedule(sched, t, mp) ==
    [sched EXCEPT !.schedule_id = Some(ScheduleIdFor(sched, t)),
                  !.macro_plan_id = IF IsNone(mp) THEN @ ELSE Some(Val(mp).plan_id),
                  !.macro_plan = IF IsNone(mp) THEN @ ELSE Some(Val(mp).macro_plan)]

\* the file save_weekly_schedule writes: status defaults to draft
ScheduleFile(sched, t, mp) ==
    [schedule   |-> FilledSchedule(sched, t, mp),
     created_at |-> t,
     status     |-> IF IsNone(sched.status) THEN "draft" ELSE Val(sched.status)]

\* save_weekly_schedule: the schedule files after the call made at instant t,
\* mp being what get_active_macro_plan returned
SaveWeeklySchedule(ss, sched, t, mp) ==
    CleanupOldSchedules(Put(ss, ScheduleIdFor(sched, t), ScheduleFile(sched, t, mp)))

\* the loop that rewrites every stored schedule as inactive
DeactivateSchedules(ss) == [i \in DOMAIN ss |-> [ss[i] EXCEPT !.status = "inactive"]]

\* a bug that activates without deactivating the others first
SetScheduleActiveNoDeactivate(ss, id) ==
    IF id \in DOMAIN ss THEN [ss EXCEPT ![id].status = "active"] ELSE ss

\* set_schedule_active
SetScheduleActive(ss, id) ==
    LET off == DeactivateSchedules(ss)
    IN  IF id \in DOMAIN off THEN [off EXCEPT ![id].status = "active"] ELSE off

\* the stored schedules, newest first (sort on created_at, reverse=True)
ActiveIds(ss) == {i \in DOMAIN ss : ss[i].status = "active"}
Newest(ss, S) == {i \in S : \A j \in S : ss[j].created_at <= ss[i].created_at}

\* a bug that returns the newest schedule whatever its status
GetNewestSchedule(ss) ==
    IF DOMAIN ss # {} THEN {Some(ss[i].schedule) : i \in Newest(ss, DOMAIN ss)}
    ELSE {None}

\* get_active_schedule: the newest active schedule, else the newest one,
\* else None (a set: equal created_at leaves the order to the glob)
GetActiveSchedule(ss) ==
    IF ActiveIds(ss) # {} THEN {Some(ss[i].schedule) : i \in Newest(ss, ActiveIds(ss))}
    ELSE IF DOMAIN ss # {} THEN {Some(ss[i].schedule) : i \in Newest(ss, DOMAIN ss)}
    ELSE {None}

----------------------------------------------------------------------------
(* JSON values, two levels deep: an object maps keys to values, a value is  *)
(* a dict of strings or a scalar; a string is a sequence of tokens           *)

Obj(f) == [isdict |-> TRUE, fields |-> f, text |-> <<>>]
Str(s) == [isdict |-> FALSE, fields |-> EmptyDict, text |-> s]

\* a truthy dict: not None and not empty
Truthy(o) == ~IsNone(o) /\ DOMAIN Val(o) # {}

----------------------------------------------------------------------------
(* The Text Completion Service's answer: a string over three kinds of      *)
(* token, prose and the two braces; "{" directly followed by "}" stands    *)
(* for a braced JSON object, whose content is the answer's payload         *)

Tokens == {"txt", "{", "}"}

\* str.find / str.rfind, 1-based, 0 when absent
Find(chars, c) ==
    IF \E i \in 1..Len(chars) : chars[i] = c
    THEN CHOOSE i \in 1..Len(chars) : chars[i] = c /\ \A j \in 1..(i - 1) : chars[j] # c
    ELSE 0
RFind(chars, c) ==
    IF \E i \in 1..Len(chars) : chars[i] = c
    THEN CHOOSE i \in 1..Len(chars) : chars[i] = c /\ \A j \in (i + 1)..Len(chars) : chars[j] # c
    ELSE 0

\* json.loads(text) succeeds
IsJson(chars) == chars = <<"{", "}">>

\* micro_planner.py's extraction: the text from the first "{" to the last "}"
\* (json_start >= 0 and json_end > json_start), None for ValueError
ExtractJson(chars) ==
    LET json_start == Find(chars, "{") - 1
        json_end == RFind(chars, "}")
    IN  IF json_start >= 0 /\ json_end > json_start
        THEN Some(SubSeq(chars, json_start + 1, json_end))
        ELSE None

----------------------------------------------------------------------------
(* Micro Planning's schedules *)

Days == <<"Monday", "Tuesday", "Wednesday", "Thursday", "Friday", "Saturday", "Sunday">>
DaySet == {Days[i] : i \in 1..Len(Days)}
Fields == {"type", "duration", "focus", "intensity", "details", "location"}

Workout(type, duration, focus, intensity, details, location) ==
    Obj([f \in Fields |->
            CASE f = "type" -> type
              [] f = "duration" -> duration
              [] f = "focus" -> focus
              [] f = "intensity" -> intensity
              [] f = "details" -> details
              [] f = "location" -> location])

RestDay == Workout("Rest", "N/A", "Recovery", "Rest", "Rest and recovery day", "N/A")

\* a bug that copies the days present and adds no missing day
ValidateScheduleNoFill(schedule) ==
    [d \in DaySet \cap DOMAIN schedule |-> schedule[d]]

\* a bug that keeps only the six required fields of a day
ValidateScheduleSixFields(schedule) ==
    [d \in DaySet |->
        IF d \in DOMAIN schedule /\ schedule[d].isdict
        THEN Obj([f \in Fields |->
                     IF f \in DOMAIN schedule[d].fields THEN schedule[d].fields[f] ELSE "N/A"])
        ELSE RestDay]

\* _validate_schedule
ValidateSchedule(schedule) ==
    [d \in DaySet |->
        IF d \in DOMAIN schedule /\ schedule[d].isdict
        THEN Obj([f \in (DOMAIN schedule[d].fields) \cup Fields |->
                     IF f \in DOMAIN schedule[d].fields THEN schedule[d].fields[f] ELSE "N/A"])
        ELSE RestDay]

\* _create_emergency_fallback
CreateEmergencyFallback ==
    [d \in DaySet |->
        CASE d = "Monday" -> Workout("Strength", "45 min", "Upper body", "Moderate", "Basic strength training", "Home")
          [] d = "Wednesday" -> Workout("Cardio", "30 min", "Endurance", "Moderate", "Basic cardio workout", "Home")
          [] d = "Friday" -> Workout("Strength", "45 min", "Lower body", "Moderate", "Basic strength training", "Home")
          [] d = "Saturday" -> Workout("Flexibility", "30 min", "Mobility", "Low", "Stretching and mobility", "Home")
          [] OTHER -> Workout("Rest", "N/A", "Recovery", "Rest", "Rest day", "N/A")]

WorkoutTypes == <<"Strength", "Cardio", "Flexibility">>
FocusOf(t) == CASE t = "Strength" -> "Strength training"
                [] t = "Cardio" -> "Cardio training"
                [] t = "Flexibility" -> "Flexibility training"
DetailsOf(t) == CASE t = "Strength" -> "Basic strength workout routine"
                  [] t = "Cardio" -> "Basic cardio workout routine"
                  [] t = "Flexibility" -> "Basic flexibility workout routine"

\* day_avail.get("available", False) of user_availability.get(day, {})
DayAvail(av, d) == IF d \in DOMAIN av THEN av[d].fields ELSE EmptyDict
IsAvailable(av, d) ==
    "available" \in DOMAIN DayAvail(av, d) /\ DayAvail(av, d)["available"] = "true"

\* workout_index when the loop reaches Days[i]
WorkoutIndex(av, i) == Cardinality({j \in 1..(i - 1) : IsAvailable(av, Days[j])})

\* _create_fallback_schedule raises AttributeError: user_availability is
\* None, or a weekday's entry is not a dict
FallbackRaises(avail) ==
    \/ IsNone(avail)
    \/ \E d \in DaySet \cap DOMAIN Val(avail) : ~Val(avail)[d].isdict

\* a bug that advances the round-robin index on every day
CreateFallbackScheduleEveryDay(av) ==
    [d \in DaySet |->
        LET i == CHOOSE k \in 1..Len(Days) : Days[k] = d
            t == WorkoutTypes[((i - 1) % Len(WorkoutTypes)) + 1]
        IN  IF IsAvailable(av, d)
            THEN Workout(t,
                         IF "duration" \in DOMAIN DayAvail(av, d)
                         THEN DayAvail(av, d)["duration"] ELSE "45 minutes",
                         FocusOf(t), "Moderate", DetailsOf(t), "Home or Gym")
            ELSE RestDay]

\* _create_fallback_schedule, for an availability it does not raise on
CreateFallbackSchedule(av) ==
    [d \in DaySet |->
        LET i == CHOOSE k \in 1..Len(Days) : Days[k] = d
            t == WorkoutTypes[(WorkoutIndex(av, i) % Len(WorkoutTypes)) + 1]
        IN  IF IsAvailable(av, d)
            THEN Workout(t,
                         IF "duration" \in DOMAIN DayAvail(av, d)
                         THEN DayAvail(av, d)["duration"] ELSE "45 minutes",
                         FocusOf(t), "Moderate", DetailsOf(t), "Home or Gym")
            ELSE RestDay]

----------------------------------------------------------------------------
(* PlanState (core/state.py) and the messages of its log.  user_id and     *)
(* schedule_history are loaded once and read by no stage; they are left    *)
(* out.  aliased records that active_schedule["micro_plan"] and            *)
(* current_micro_plan are one and the same dict object.                    *)

\* a message: who wrote it, what it says, and its content as json.loads
\* reads it (None when json.loads raises)
HumanMessage(content) == [role |-> "human", tag |-> "input", json |-> Some(content)]
AIMessage(tag) == [role |-> "ai", tag |-> tag, json |-> None]

\* the Plan Store as a stage sees it
Store(p, ms, ss, fb, t) ==
    [profile |-> p, macros |-> ms, schedules |-> ss, feedback |-> fb, now |-> t]

\* the service's answer as a stage that parses the whole of it sees it: the
\* text, and whether json.loads accepts it
NoAnswer == [given |-> FALSE, parsed |-> FALSE, chars |-> <<>>]
Answer(chars) == [given |-> TRUE, parsed |-> IsJson(chars), chars |-> chars]

\* what a stage call leaves: the PlanState, the Plan Store, the exception it
\* raised ("" when it returned), and, for Micro Planning, what happened in it
NoMicro ==
    [serviceRaised |-> FALSE, heuristic |-> FALSE, weekly |-> None, validated |-> None,
     saveRaised |-> FALSE, saved |-> None]
Outcome(st, store, error) ==
    [state |-> st, store |-> store, error |-> error, micro |-> NoMicro, answer |-> NoAnswer]

\* a bug that starts the log anew
LogStartsAnew(st, msg) == [st EXCEPT !.messages = <<msg>>]

\* state["messages"].append(...)
Log(st, msg) == [st EXCEPT !.messages = Append(@, msg)]

\* json.loads(messages[-1].content), None when there is no message or it raises
LatestJson(st) ==
    IF st.messages = <<>> THEN None ELSE st.messages[Len(st.messages)].json

\* a bug that lets the existing value win
UpdateKeepsExisting(d, e) ==
    [k \in (DOMAIN d) \cup (DOMAIN e) |-> IF k \in DOMAIN d THEN d[k] ELSE e[k]]

\* dict.update
Update(d, e) == [k \in (DOMAIN d) \cup (DOMAIN e) |-> IF k \in DOMAIN e THEN e[k] ELSE d[k]]

----------------------------------------------------------------------------
(* The answers of the Text Completion Service and the inputs of the calls *)

\* every string of at most n tokens
Strings(n) == UNION {[1..k -> Tokens] : k \in 0..n}
Responses == Strings(MaxRespLen)

ProfileA == [age |-> Str(<<"30">>), goal |-> Str(<<"strength">>)]
ProfilePayloads == {ProfileA}
\* a JSON object, prose, and prose followed by a JSON object
ProfileAnswers == {<<"{", "}">>, <<"txt">>, <<"txt", "{", "}">>}

\* the macro plan text the service returns, possibly empty
MacroAnswers == {"", "plan A"}

Yoga == Workout("Yoga", "1 hour", "Flexibility", "Low", "Sun salutations", "Home")
FullWeek == [d \in DaySet |-> Yoga]
DefectDays == {"Monday", "Sunday"}
\* JSON objects the service may return for a week: complete, empty, a day
\* missing, a day that is no dict, a day with one field only, a day with a
\* field more, a key that is no weekday
SchedulePayloads ==
    {FullWeek, EmptyDict, Put(FullWeek, "notes", Str(<<"txt">>))}
    \cup {Restrict(FullWeek, DaySet \ {d}) : d \in DefectDays}
    \cup {[FullWeek EXCEPT ![d] = Str(<<"txt">>)] : d \in DefectDays}
    \cup {[FullWeek EXCEPT ![d] = Obj([f \in {"type"} |-> "Yoga"])] : d \in DefectDays}
    \cup {[FullWeek EXCEPT ![d] = Obj(Put(Yoga.fields, "time", "07:00"))] : d \in DefectDays}

Slot(duration) == Obj([available |-> "true", duration |-> duration])
\* availability: none, empty, Monday/Wednesday/Friday for 45 minutes, every
\* day with no duration given and Tuesday marked unavailable, and one whose
\* Monday entry is no dict
AvailabilityInputs ==
    {None,
     Some(EmptyDict),
     Some([d \in {"Monday", "Wednesday", "Friday"} |-> Slot("45 minutes")]),
     Some([d \in DaySet |-> IF d = "Tuesday" THEN Obj([available |-> "false"])
                                             ELSE Obj([available |-> "true"])]),
     Some([d \in {"Monday"} |-> Str(<<"txt">>)])}

----------------------------------------------------------------------------
(* The stages (agents/*.py): each maps a PlanState and the Plan Store to    *)
(* the set of outcomes the call can have                                     *)

\* ProfileSetupAgent.process, once the service answered chars / payload
ProfileSetupAnswered(st, store, chars, payload) ==
    IF IsJson(chars)
    THEN LET st1 == [st EXCEPT !.user_profile = Some(payload)]
         IN  {Outcome(Log(st1, AIMessage("Profile processed and saved")),
                      [store EXCEPT !.profile = Some(payload)], ""),
              \* save_user_profile raises
              Outcome(st1, store, "OSError")}
    ELSE {Outcome(Log([st EXCEPT !.user_profile = Some([raw_profile |-> Str(chars)])],
                      AIMessage("Profile processed and saved")),
                  store, "")}

\* ProfileSetupAgent.process
ProfileSetupProcess(st, store) ==
    IF ~IsNone(LatestJson(st)) /\ IsNone(st.user_profile)
    THEN \* user_input is None: user_input.update raises
         {Outcome(st, store, "AttributeError")}
    ELSE LET st1 == IF IsNone(LatestJson(st)) THEN st
                    ELSE [st EXCEPT !.user_profile =
                                       Some(Update(Val(st.user_profile), Val(LatestJson(st))))]
         IN  {Outcome(st1, store, "LLMError")}
             \cup UNION {{[o EXCEPT !.answer = Answer(chars)] :
                               o \in ProfileSetupAnswered(st1, store, chars, payload)} :
                            chars \in ProfileAnswers, payload \in ProfilePayloads}

\* new_info of ProfileUpdateAgent.process
NewInfo(st) ==
    IF st.messages = <<>> THEN EmptyDict
    ELSE IF ~IsNone(LatestJson(st)) THEN Val(LatestJson(st))
    ELSE [feedback |-> Str(<<st.messages[Len(st.messages)].tag>>)]

\* ProfileUpdateAgent.process, once the service answered chars / payload
ProfileUpdateAnswered(st, store, chars, payload) ==
    IF IsJson(chars)
    THEN LET st1 == [st EXCEPT !.user_profile = Some(payload)]
         IN  {Outcome(Log(st1, AIMessage("Profile updated successfully")),
                      [store EXCEPT !.profile = Some(payload)], ""),
              Outcome(st1, store, "OSError")}
    ELSE IF IsNone(st.user_profile)
    THEN \* existing_profile is None: existing_profile.update raises
         {Outcome(st, store, "AttributeError")}
    ELSE {Outcome(Log([st EXCEPT !.user_profile = Some(Update(Val(@), NewInfo(st)))],
                      AIMessage("Profile updated successfully")),
                  store, "")}

\* ProfileUpdateAgent.process
ProfileUpdateProcess(st, store) ==
    {Outcome(st, store, "LLMError")}
    \cup UNION {{[o EXCEPT !.answer = Answer(chars)] :
                      o \in ProfileUpdateAnswered(st, store, chars, payload)} :
                   chars \in ProfileAnswers, payload \in ProfilePayloads}

\* MacroPlannerAgent.process
MacroPlannerProcess(st, store) ==
    {Outcome(st, store, "LLMError")}
    \cup {Outcome(Log([st EXCEPT !.current_macro_plan = Some(text)],
                      AIMessage("Macro training plan created")),
                  store, "") : text \in MacroAnswers}

\* the except branch of MicroPlannerAgent.process: the emergency fallback
\* becomes the plan and the error is logged
MicroEmergency(st, store, micro) ==
    [Outcome(Log([st EXCEPT !.current_micro_plan = Some(CreateEmergencyFallback),
                            !.aliased = FALSE],
                 AIMessage("Created basic fallback schedule due to error")),
             store, "")
        EXCEPT !.micro = micro]

\* the answer holds a region from its first "{" to its last "}" that
\* json.loads parses
MicroFindsJson(chars) == ~IsNone(ExtractJson(chars)) /\ IsJson(Val(ExtractJson(chars)))

\* weekly_schedule before validation: the parsed object, or the schedule
\* built from the availability when no JSON is found or it does not parse;
\* None when building that raises
MicroWeeklySchedule(st, chars, payload) ==
    IF MicroFindsJson(chars) THEN Some(payload)
        ELSE IF FallbackRaises(st.user_availability) THEN None
        ELSE Some(CreateFallbackSchedule(Val(st.user_availability)))

\* MicroPlannerAgent.process from the validation on: weekly is the schedule
\* to validate, ok whether save_weekly_schedule returns, t the instant, mp
\* what get_active_macro_plan returns
MicroPlannerSave(st, store, weekly, ok, t, mp) ==
    LET validated == ValidateSchedule(weekly)
        st1 == [st EXCEPT !.current_micro_plan = Some(validated)]
        schedule_data == [schedule_id |-> Some(IdAt(t)),
                          status |-> Some("draft"),
                          micro_plan |-> Some(validated),
                          macro_plan_id |-> None,
                          macro_plan |-> st.current_macro_plan,
                          user_availability |-> st.user_availability]
    IN  IF ok
        THEN [Outcome(Log([st1 EXCEPT !.active_schedule = Some(FilledSchedule(schedule_data, t, mp)),
                                      !.aliased = TRUE],
                          AIMessage("Weekly schedule created successfully")),
                      [store EXCEPT !.schedules = SaveWeeklySchedule(@, schedule_data, t, mp),
                                    !.now = t],
                      "")
                EXCEPT !.micro = [NoMicro EXCEPT !.weekly = Some(weekly),
                                                 !.validated = Some(validated),
                                                 !.saved = Some(IdAt(t))]]
        ELSE MicroEmergency(st1, [store EXCEPT !.now = t],
                            [NoMicro EXCEPT !.weekly = Some(weekly),
                                            !.validated = Some(validated),
                                            !.saveRaised = TRUE])

\* MicroPlannerAgent.process: the service raises, or answers; the write of
\* the schedule file raises or not
MicroPlannerProcess(st, store) ==
    LET weeklies == {<<MicroWeeklySchedule(st, chars, payload), MicroFindsJson(chars)>> :
                        chars \in Responses, payload \in SchedulePayloads}
    IN  {MicroEmergency(st, store, [NoMicro EXCEPT !.serviceRaised = TRUE])}
        \cup {IF IsNone(w[1]) THEN MicroEmergency(st, store, NoMicro)
              ELSE [MicroPlannerSave(st, store, Val(w[1]), ok, store.now + dt, mp)
                       EXCEPT !.micro.heuristic = ~w[2]] :
                 w \in weeklies, ok \in BOOLEAN, dt \in 1..TicksPerSecond,
                 mp \in GetActiveMacroPlan(store.macros)}

\* a bug that keeps the notes and drops the draft
WithNotesOnly(st, chars) ==
    IF IsNone(st.current_micro_plan) THEN st
    ELSE [st EXCEPT !.current_micro_plan = Some([k \in {"optimization_notes"} |-> Str(chars)]),
                    !.aliased = FALSE]

\* current_schedule["optimization_notes"] = optimized_schedule, when
\* current_schedule is a dict; the dict is changed in place
WithNotes(st, chars) ==
    IF IsNone(st.current_micro_plan) THEN st
    ELSE LET plan == Put(Val(st.current_micro_plan), "optimization_notes", Str(chars))
         IN  [st EXCEPT !.current_micro_plan = Some(plan),
                        !.active_schedule =
                            IF st.aliased
                            THEN Some([Val(st.active_schedule) EXCEPT !.micro_plan = Some(plan)])
                            ELSE st.active_schedule]

\* ScheduleOptimizerAgent.process, once the service answered chars / payload
ScheduleOptimizerAnswered(st, chars, payload) ==
    IF chars # <<>> /\ chars[1] = "{"
    THEN IF IsJson(chars)
         THEN [st EXCEPT !.current_micro_plan = Some(payload), !.aliased = FALSE]
         ELSE WithNotes(st, chars)
    ELSE WithNotes(st, chars)

\* ScheduleOptimizerAgent.process
ScheduleOptimizerProcess(st, store) ==
    {Outcome(st, store, "LLMError")}
    \cup {[Outcome(Log(ScheduleOptimizerAnswered(st, chars, payload),
                       AIMessage("Schedule optimized for your availability")),
                   store, "")
              EXCEPT !.answer = Answer(chars)] :
             chars \in Responses, payload \in SchedulePayloads}

\* the content of the last HumanMessage of the log, None when there is none
LatestFeedback(st) ==
    LET humans == {i \in 1..Len(st.messages) : st.messages[i].role = "human"}
    IN  IF humans = {} THEN None
        ELSE Some(st.messages[CHOOSE i \in humans : \A j \in humans : j <= i])

\* FeedbackProcessorAgent.process
FeedbackProcessorProcess(st, store) ==
    {Outcome(st, store, "LLMError")}
    \cup (IF IsNone(st.active_schedule)
          THEN \* state.get("active_schedule", {}) is None: .get raises
               {Outcome(st, store, "AttributeError")}
          ELSE {LET entry == [feedback |-> LatestFeedback(st),
                              analysis |-> chars,
                              schedule_version |-> Val(st.active_schedule).schedule_id]
                    st1 == [st EXCEPT !.feedback_history = Append(@, entry),
                                      !.latest_feedback = Some(entry)]
                IN  Outcome(Log(st1, AIMessage("Feedback analyzed and processed")),
                            [store EXCEPT !.feedback = Append(@, entry)], "") :
                   chars \in ProfileAnswers})

----------------------------------------------------------------------------
(* The workflow graph (core/graph.py) *)

Nodes == {"profile_setup", "profile_update", "macro_planning", "micro_planning",
          "schedule_optimization", "feedback_processing"}
END == "__end__"

\* route_workflow
RouteWorkflow(st) ==
    CASE st.workflow_stage = "profile_setup" -> "profile_setup"
      [] st.workflow_stage = "profile_update" -> "profile_update"
      [] st.workflow_stage = "macro_planning" -> "macro_planning"
      [] st.workflow_stage = "micro_planning" -> "micro_planning"
      [] st.workflow_stage = "schedule_optimization" -> "schedule_optimization"
      [] st.workflow_stage = "feedback" -> "feedback_processing"
      [] OTHER -> END

\* route_after_micro_planning
RouteAfterMicroPlanning(st) == "schedule_optimization"

\* route_after_macro_planning
RouteAfterMacroPlanning(st) ==
    IF st.workflow_stage = "micro_planning" THEN "micro_planning" ELSE END

\* the destinations each add_conditional_edges call maps
ProfileSetupEnds == {"profile_setup", "macro_planning", "micro_planning",
                     "schedule_optimization", END}
MacroPlanningEnds == {"micro_planning", END}
MicroPlanningEnds == {"schedule_optimization"}

\* the graph follows a routing result its map holds; one it does not hold
\* is a KeyError
Follow(r, ends) == IF r \in ends THEN r ELSE "KeyError"

\* a bug that ends the run after Micro Planning
SuccessorSkipsOptimization(n, st) ==
    CASE n = "profile_setup" -> Follow(RouteWorkflow(st), ProfileSetupEnds)
      [] n = "macro_planning" -> Follow(RouteAfterMacroPlanning(st), MacroPlanningEnds)
      [] n = "micro_planning" -> END
      [] n = "schedule_optimization" -> END
      [] n = "feedback_processing" -> "micro_planning"
      [] n = "profile_update" -> END

\* the node that runs after node n left PlanState st
Successor(n, st) ==
    CASE n = "profile_setup" -> Follow(RouteWorkflow(st), ProfileSetupEnds)
      [] n = "macro_planning" -> Follow(RouteAfterMacroPlanning(st), MacroPlanningEnds)
      [] n = "micro_planning" -> Follow(RouteAfterMicroPlanning(st), MicroPlanningEnds)
      [] n = "schedule_optimization" -> END
      [] n = "feedback_processing" -> "micro_planning"
      [] n = "profile_update" -> END

\* the stage a node runs
StageOutcomes(n, st, store) ==
    CASE n = "profile_setup" -> ProfileSetupProcess(st, store)
      [] n = "profile_update" -> ProfileUpdateProcess(st, store)
      [] n = "macro_planning" -> MacroPlannerProcess(st, store)
      [] n = "micro_planning" -> MicroPlannerProcess(st, store)
      [] n = "schedule_optimization" -> ScheduleOptimizerProcess(st, store)
      [] n = "feedback_processing" -> FeedbackProcessorProcess(st, store)

----------------------------------------------------------------------------
(* Inputs of the Plan Store calls *)

MacroTexts == {"plan A", "plan B"}
CallerIds == 0..MaxCallerId
StatusInputs == {None, Some("active")}
PlanTag == [notes |-> Str(<<"txt">>)]

ScheduleInputs ==
    [schedule_id : {None} \cup {Some(i) : i \in CallerIds},
     status : StatusInputs,
     micro_plan : {Some(PlanTag)},
     macro_plan_id : {None},
     macro_plan : {None},
     user_availability : {None}]

\* history of a call: its name, the id it used, the text it was given, the ids
\* stored and the ids active when it started
NoOp == [name |-> "none", id |-> None, text |-> None, stored |-> {}, active |-> {}]

----------------------------------------------------------------------------
(* The Coach Facade (core/coach.py) and the engine running the graph        *)

\* the PlanState before a call builds one
NoState ==
    [user_profile |-> None, current_macro_plan |-> None, current_micro_plan |-> None,
     user_availability |-> None, active_schedule |-> None, workflow_stage |-> "",
     messages |-> <<>>, feedback_history |-> <<>>, latest_feedback |-> None,
     aliased |-> FALSE]

\* the workflow stage get_initial_state derives from what is stored
InitialStage(p, mp, as) ==
    IF IsNone(p) THEN "profile_setup"
    ELSE IF IsNone(mp) THEN "macro_planning"
    ELSE IF IsNone(as) THEN "micro_planning"
    ELSE "active"

\* get_initial_state: a set, as get_active_macro_plan and get_active_schedule
\* are
GetInitialState(p, ms, ss) ==
    {[NoState EXCEPT !.user_profile = p,
                     !.current_macro_plan = IF IsNone(mp) THEN None ELSE Some(Val(mp).macro_plan),
                     !.current_micro_plan = IF IsNone(as) THEN None ELSE Val(as).micro_plan,
                     !.active_schedule = as,
                     !.workflow_stage = InitialStage(p, mp, as),
                     !.aliased = ~IsNone(as)] :
        mp \in GetActiveMacroPlan(ms), as \in GetActiveSchedule(ss)}

\* stored, macros, profile, state: the ids of the schedules, the macro plans
\* and the profile stored when the call began, and the PlanState the run began
\* with (history)
NoCall ==
    [op |-> "none", availability |-> None, stage |-> "", stored |-> {}, macros |-> EmptyDict,
     profile |-> None, state |-> NoState]
NoRet == [kind |-> "none", schedule |-> None, text |-> None]

\* json.dumps(schedule_input) of create_weekly_schedule, as json.loads reads it
ScheduleInput ==
    [action |-> Str(<<"create_weekly_schedule">>),
     availability |-> Str(<<"availability">>),
     preferences |-> Str(<<"preferences">>)]

\* graph.invoke(initial_state): the run starts at the entry point
StartRun(st, c) ==
    /\ state' = st
    /\ node' = "profile_setup"
    /\ status' = "running"
    /\ executed' = <<>>
    /\ call' = [c EXCEPT !.stored = DOMAIN schedules, !.macros = macros,
                         !.profile = profile, !.state = st]
    /\ UNCHANGED <<procs, search, now, profile, macros, schedules, feedback, lastOp, lastMicro, lastAnswer, ret>>

\* create_weekly_schedule up to graph.invoke
CreateWeeklyScheduleCall ==
    /\ status = "idle"
    /\ \E availability \in AvailabilityInputs, st \in GetInitialState(profile, macros, schedules) :
        StartRun(Log([st EXCEPT !.workflow_stage = "micro_planning",
                                !.user_availability = availability],
                     HumanMessage(ScheduleInput)),
                 [NoCall EXCEPT !.op = "create_weekly_schedule", !.availability = availability])

\* create_macro_plan up to graph.invoke
CreateMacroPlanCall ==
    /\ status = "idle"
    /\ \E user_profile \in ProfilePayloads, st \in GetInitialState(profile, macros, schedules) :
        StartRun([st EXCEPT !.workflow_stage = "macro_planning",
                            !.user_profile = Some(user_profile)],
                 [NoCall EXCEPT !.op = "create_macro_plan"])

\* run_workflow up to graph.invoke: an empty user_input adds no message
RunWorkflowCall ==
    /\ status = "idle"
    /\ \E user_input \in {EmptyDict} \cup ProfilePayloads,
       st \in GetInitialState(profile, macros, schedules) :
        StartRun(IF user_input = EmptyDict THEN st ELSE Log(st, HumanMessage(user_input)),
                 [NoCall EXCEPT !.op = "run_workflow"])

\* the workflow stages route_workflow knows and no facade call sets
OtherStages == {"profile_update", "schedule_optimization", "feedback"}

\* the compiled graph invoked on a PlanState carrying one of these stages
InvokeGraphCall ==
    /\ status = "idle"
    /\ \E stage \in OtherStages, st \in GetInitialState(profile, macros, schedules) :
        StartRun([st EXCEPT !.workflow_stage = stage],
                 [NoCall EXCEPT !.op = "invoke", !.stage = stage])

\* one step of the run: the node's stage runs, then its edge is followed
ExecuteStage ==
    /\ status = "running"
    /\ Len(executed) < RecursionLimit
    /\ \E out \in StageOutcomes(node, state, Store(profile, macros, schedules, feedback, now)) :
          /\ state' = out.state
          /\ profile' = out.store.profile
          /\ macros' = out.store.macros
          /\ schedules' = out.store.schedules
          /\ feedback' = out.store.feedback
          /\ now' = out.store.now
          /\ lastMicro' = IF node = "micro_planning" THEN out.micro ELSE lastMicro
          /\ lastAnswer' = out.answer
          /\ executed' = Append(executed, node)
          /\ LET next == Successor(node, out.state)
             IN  IF out.error # "" THEN status' = out.error /\ node' = node
                 ELSE IF next = "KeyError" THEN status' = "KeyError" /\ node' = node
                 ELSE IF next = END THEN status' = "end" /\ node' = END
                 ELSE status' = "running" /\ node' = next
    /\ UNCHANGED <<procs, search, call, ret, lastOp>>

\* the run reached the recursion limit without reaching END
RecursionLimitReached ==
    /\ status = "running"
    /\ Len(executed) >= RecursionLimit
    /\ status' = "GraphRecursionError"
    /\ UNCHANGED <<procs, search, now, profile, macros, schedules, feedback, lastOp, state, node, executed,
                   call, ret, lastMicro, lastAnswer>>

Finished == status \notin {"idle", "running", "returned"}

\* create_weekly_schedule after graph.invoke: an exception of the run is
\* caught and {} returned; else the stored active schedule is returned, or a
\* schedule is built from the final state and saved
CreateWeeklyScheduleReturn ==
    /\ call.op = "create_weekly_schedule"
    /\ Finished
    /\ status' = "returned"
    /\ IF status # "end"
       THEN ret' = [NoRet EXCEPT !.kind = "empty"] /\ UNCHANGED <<now, schedules>>
       ELSE \E as \in GetActiveSchedule(schedules) :
               IF ~IsNone(as)
               THEN ret' = [NoRet EXCEPT !.kind = "active_schedule", !.schedule = as]
                    /\ UNCHANGED <<now, schedules>>
               ELSE IF Truthy(state.current_micro_plan)
               THEN \E ok \in BOOLEAN, dt \in 1..TicksPerSecond, mp \in GetActiveMacroPlan(macros) :
                       LET manual_schedule == [schedule_id |-> Some(IdAt(now + dt)),
                                               status |-> Some("draft"),
                                               micro_plan |-> state.current_micro_plan,
                                               macro_plan_id |-> None,
                                               macro_plan |-> None,
                                               user_availability |-> call.availability]
                       IN  /\ now' = now + dt
                           /\ IF ok
                              THEN /\ schedules' = SaveWeeklySchedule(schedules, manual_schedule,
                                                                      now + dt, mp)
                                   /\ ret' = [NoRet EXCEPT
                                                 !.kind = "manual_schedule",
                                                 !.schedule = Some(FilledSchedule(manual_schedule,
                                                                                  now + dt, mp))]
                              ELSE \* save_weekly_schedule raises: caught, {} returned
                                   /\ schedules' = schedules
                                   /\ ret' = [NoRet EXCEPT !.kind = "empty"]
               ELSE ret' = [NoRet EXCEPT !.kind = "empty"] /\ UNCHANGED <<now, schedules>>
    /\ UNCHANGED <<procs, search, profile, macros, feedback, lastOp, state, node, executed, call, lastMicro, lastAnswer>>

\* create_macro_plan after graph.invoke: an exception of the run is not
\* caught; a non-empty plan text is saved and returned
CreateMacroPlanReturn ==
    /\ call.op = "create_macro_plan"
    /\ Finished
    /\ status' = "returned"
    /\ IF status # "end"
       THEN ret' = [NoRet EXCEPT !.kind = "raised"] /\ UNCHANGED <<now, macros>>
       ELSE IF ~IsNone(state.current_macro_plan) /\ Val(state.current_macro_plan) # ""
       THEN \E dt \in 1..TicksPerSecond :
               /\ now' = now + dt
               /\ macros' = SaveMacroPlan(macros, Val(state.current_macro_plan), now + dt)
               /\ ret' = [NoRet EXCEPT !.kind = "macro_plan", !.text = state.current_macro_plan]
       ELSE ret' = [NoRet EXCEPT !.kind = "failed",
                                 !.text = Some("Failed to create macro plan")]
            /\ UNCHANGED <<now, macros>>
    /\ UNCHANGED <<procs, search, profile, schedules, feedback, lastOp, state, node, executed, call, lastMicro, lastAnswer>>

\* run_workflow, or the caller of graph.invoke, after the run: the final
\* state's messages, or the run's exception
GraphReturn ==
    /\ call.op \in {"run_workflow", "invoke"}
    /\ Finished
    /\ status' = "returned"
    /\ ret' = [NoRet EXCEPT !.kind = IF status = "end" THEN "messages" ELSE "raised"]
    /\ UNCHANGED <<procs, search, now, profile, macros, schedules, feedback, lastOp, state, node, executed,
                   call, lastMicro, lastAnswer>>

----------------------------------------------------------------------------
(* Specifications *)

engineIdle ==
    /\ state = NoState
    /\ node = END
    /\ status = "idle"
    /\ executed = <<>>
    /\ call = NoCall
    /\ ret = NoRet
    /\ lastMicro = NoMicro
    /\ lastAnswer = NoAnswer
    /\ procs = NoProcs
    /\ search = NoSearch

engineVars == <<state, node, status, executed, call, ret, lastMicro, lastAnswer>>
vars == <<now, profile, macros, schedules, feedback, lastOp, state, node, status, executed,
          call, ret, lastMicro, lastAnswer, procs, search>>

\* Plan Stores a user can have: nothing stored; a profile; a macro plan too;
\* a draft schedule too; that schedule activated
EmptyStore == Store(None, EmptyDict, EmptyDict, <<>>, 0)
WithProfile == [EmptyStore EXCEPT !.profile = Some(ProfileA)]
WithMacro == [WithProfile EXCEPT !.macros = SaveMacroPlan(@, "plan A", TicksPerSecond),
                                 !.now = TicksPerSecond]
WithDraft ==
    LET t == WithMacro.now + TicksPerSecond
        mp == CHOOSE m \in GetActiveMacroPlan(WithMacro.macros) : TRUE
        draft == [schedule_id |-> None, status |-> Some("draft"),
                  micro_plan |-> Some(ValidateSchedule(FullWeek)), macro_plan_id |-> None,
                  macro_plan |-> None, user_availability |-> None]
    IN  [WithMacro EXCEPT !.schedules = SaveWeeklySchedule(@, draft, t, mp), !.now = t]
WithActive == [WithDraft EXCEPT !.schedules = SetScheduleActive(@, IdAt(WithDraft.now))]
InitialStores == {EmptyStore, WithProfile, WithMacro, WithDraft, WithActive}

\* one facade call, or one run of the graph, on any of these stores
Init ==
    /\ \E s \in InitialStores :
          /\ now = s.now
          /\ profile = s.profile
          /\ macros = s.macros
          /\ schedules = s.schedules
          /\ feedback = s.feedback
    /\ lastOp = NoOp
    /\ engineIdle

Next ==
    \/ CreateWeeklyScheduleCall
    \/ CreateMacroPlanCall
    \/ RunWorkflowCall
    \/ InvokeGraphCall
    \/ ExecuteStage
    \/ RecursionLimitReached
    \/ CreateWeeklyScheduleReturn
    \/ CreateMacroPlanReturn
    \/ GraphReturn

Spec == Init /\ [][Next]_vars

----------------------------------------------------------------------------
(* A profile stage called on its own: agent.process(state) on a PlanState   *)
(* loaded from the Plan Store whose log holds the new input                  *)

NewGoal == [goal |-> Str(<<"endurance">>)]
\* the log: empty, a JSON message, a message json.loads does not parse
StageMessages ==
    {<<>>, <<HumanMessage(NewGoal)>>, <<[HumanMessage(NewGoal) EXCEPT !.json = None]>>}
ProfileStages == {"profile_setup", "profile_update"}

\* the PlanState a profile stage is called with
ProfileStageCall ==
    /\ status = "idle"
    /\ \E n \in ProfileStages, msgs \in StageMessages,
          st \in GetInitialState(profile, macros, schedules) :
          /\ state' = [st EXCEPT !.messages = msgs]
          /\ node' = n
          /\ call' = [NoCall EXCEPT !.op = "process", !.stage = n,
                                    !.stored = DOMAIN schedules, !.macros = macros,
                                    !.profile = profile,
                                    !.state = [st EXCEPT !.messages = msgs]]
    /\ status' = "running"
    /\ executed' = <<>>
    /\ UNCHANGED <<procs, search, now, profile, macros, schedules, feedback, lastOp, lastMicro, lastAnswer, ret>>

\* process(state) runs: it returns the PlanState or raises
ProcessStage ==
    /\ call.op = "process"
    /\ status = "running"
    /\ \E out \in StageOutcomes(node, state, Store(profile, macros, schedules, feedback, now)) :
          /\ state' = out.state
          /\ profile' = out.store.profile
          /\ macros' = out.store.macros
          /\ schedules' = out.store.schedules
          /\ feedback' = out.store.feedback
          /\ now' = out.store.now
          /\ lastAnswer' = out.answer
          /\ status' = IF out.error # "" THEN out.error ELSE "end"
    /\ executed' = <<node>>
    /\ node' = END
    /\ UNCHANGED <<procs, search, call, ret, lastOp, lastMicro>>

StageNext == ProfileStageCall \/ ProcessStage

StageSpec == Init /\ [][StageNext]_vars

----------------------------------------------------------------------------
(* Claims about the engine and the Coach Facade *)

LastExecuted == IF executed = <<>> THEN "" ELSE executed[Len(executed)]

\* the exceptions a stage raises
StageErrors == {"LLMError", "AttributeError", "OSError"}

\* a plan with exactly the seven weekdays, each a dict holding the six fields
CompletePlan(p) ==
    /\ ~IsNone(p)
    /\ DOMAIN Val(p) = DaySet
    /\ \A d \in DaySet : Val(p)[d].isdict /\ Fields \subseteq DOMAIN Val(p)[d].fields

\* C1: whatever the availability and whatever the Text Completion Service
\* does (a JSON week, a JSON week with missing or malformed days, text with
\* no JSON, an exception), MicroPlannerAgent.process returns without raising
\* and leaves a current_micro_plan whose keys are exactly Monday..Sunday, each
\* a record holding type, duration, focus, intensity, details and location.
C1_MicroPlanComplete ==
    LastExecuted = "micro_planning" =>
        /\ status \notin StageErrors
        /\ CompletePlan(state.current_micro_plan)

\* Micro Planning saved a week whose Monday the service's JSON lacked or
\* garbled: validation made it a rest day and kept the Tuesday it was given
C1_Witness ==
    /\ LastExecuted = "micro_planning"
    /\ ~IsNone(lastMicro.saved)
    /\ Val(state.current_micro_plan)["Monday"] = RestDay
    /\ Val(state.current_micro_plan)["Tuesday"] = Yoga

\* C2: when the Text Completion Service raises during a stage, the run does
\* not raise: no run ends with the service's exception.
C2_ServiceFailureContained == status # "LLMError"

\* C3: a run a facade call started (stage profile_setup, macro_planning,
\* micro_planning or active) in which every stage call returned reaches END.
C3_RunReachesEnd ==
    (/\ call.op \in {"create_weekly_schedule", "create_macro_plan", "run_workflow"}
     /\ Finished
     /\ status \notin StageErrors)
        => status = "end"

\* C8: a run whose PlanState starts with workflow_stage "feedback", and in
\* which no stage call raised, executed Feedback Processing and right after
\* it Micro Planning.
C8_FeedbackThenMicroPlanning ==
    (/\ call.op = "invoke"
     /\ call.stage = "feedback"
     /\ Finished
     /\ status \notin StageErrors)
        => \E i \in 1..(Len(executed) - 1) :
              /\ executed[i] = "feedback_processing"
              /\ executed[i + 1] = "micro_planning"

\* C9: after a create_weekly_schedule call whose run reached END with a
\* micro plan in the PlanState, whose Micro Planning saved nothing, and in
\* which no save by the facade raised, the Plan Store holds a schedule with
\* that micro plan.
C9_ManualRecovery ==
    (/\ call.op = "create_weekly_schedule"
     /\ status = "returned"
     /\ node = END
     /\ IsNone(lastMicro.saved)
     /\ ret.kind # "empty"
     /\ Truthy(state.current_micro_plan))
        => \E id \in DOMAIN schedules :
              schedules[id].schedule.micro_plan = state.current_micro_plan

\* C10: when save_weekly_schedule raises in Micro Planning after the
\* schedule was validated, the stage leaves that validated schedule as
\* current_micro_plan.
C10_FailedSaveKeepsPlan ==
    (LastExecuted = "micro_planning" /\ lastMicro.saveRaised)
        => state.current_micro_plan = lastMicro.validated

\* C11: when create_weekly_schedule returns a non-empty schedule after a run
\* whose Micro Planning saved a schedule under an id not stored before, the
\* returned schedule's id was not in the store before the call.
C11_ReturnsNewSchedule ==
    (/\ call.op = "create_weekly_schedule"
     /\ status = "returned"
     /\ ret.kind # "empty"
     /\ ~IsNone(lastMicro.saved)
     /\ Val(lastMicro.saved) \notin call.stored)
        => Val(Val(ret.schedule).schedule_id) \notin call.stored

\* C12: create_macro_plan returns the text Macro Planning generated, and
\* then the only active stored macro plan holds that text; when the text is
\* empty it returns the failure message and the stored macro plans are as
\* before the call.
C12_CreateMacroPlan ==
    (call.op = "create_macro_plan" /\ status = "returned" /\ ret.kind # "raised") =>
        /\ LastExecuted = "macro_planning"
        /\ IF Val(state.current_macro_plan) # ""
           THEN /\ ret.kind = "macro_plan"
                /\ ret.text = state.current_macro_plan
                /\ \E i \in DOMAIN macros :
                      /\ macros[i].macro_plan = Val(ret.text)
                      /\ \A j \in DOMAIN macros : macros[j].status = "active" <=> j = i
           ELSE /\ ret.kind = "failed"
                /\ ret.text = Some("Failed to create macro plan")
                /\ macros = call.macros

\* create_macro_plan returned a new plan's text and the plan stored before
\* is still stored, now inactive
C12_Witness ==
    /\ call.op = "create_macro_plan"
    /\ status = "returned"
    /\ ret.kind = "macro_plan"
    /\ \E j \in DOMAIN call.macros : j \in DOMAIN macros /\ macros[j].status = "inactive"

\* the weekdays of a plan whose type is not Rest
NonRestDays(p) == {d \in DaySet \cap DOMAIN p : p[d].fields["type"] # "Rest"}

\* C13: when the Text Completion Service raises in Micro Planning, the micro
\* plan is the emergency fallback schedule, a complete week with exactly 3
\* days that are not Rest and 4 Rest days.
C13_EmergencyThreeWorkouts ==
    (LastExecuted = "micro_planning" /\ lastMicro.serviceRaised) =>
        /\ state.current_micro_plan = Some(CreateEmergencyFallback)
        /\ CompletePlan(state.current_micro_plan)
        /\ Cardinality(NonRestDays(Val(state.current_micro_plan))) = 3
        /\ Cardinality(DaySet \ NonRestDays(Val(state.current_micro_plan))) = 4

\* day d is marked available in availability av
MarkedAvailable(av, d) ==
    /\ d \in DOMAIN av
    /\ "available" \in DOMAIN av[d].fields
    /\ av[d].fields["available"] = "true"

\* the workout types of plan p on Monday..Sunday
TypesOf(p) == [i \in 1..Len(Days) |-> p[Days[i]].fields["type"]]

\* C14: when the answer holds no parseable JSON object, the schedule built
\* from the availability gives the k-th available day, counting from 0 in
\* the order Monday..Sunday, the type at position k mod 3 of Strength, Cardio,
\* Flexibility with the day's duration ("45 minutes" if none is given), and
\* Rest to every other day; Monday/Wednesday/Friday available gives
\* Strength, Rest, Cardio, Rest, Flexibility, Rest, Rest.
C14_RoundRobinFallback ==
    (LastExecuted = "micro_planning" /\ lastMicro.heuristic) =>
        LET av == Val(state.user_availability)
            p == Val(lastMicro.validated)
        IN  /\ \A i \in 1..Len(Days) :
                  LET d == Days[i]
                      k == Cardinality({j \in 1..(i - 1) : MarkedAvailable(av, Days[j])})
                  IN  IF MarkedAvailable(av, d)
                      THEN /\ p[d].fields["type"] = <<"Strength", "Cardio", "Flexibility">>[(k % 3) + 1]
                           /\ p[d].fields["duration"] =
                                 IF "duration" \in DOMAIN av[d].fields
                                 THEN av[d].fields["duration"] ELSE "45 minutes"
                      ELSE p[d].fields["type"] = "Rest"
            /\ {d \in DaySet : MarkedAvailable(av, d)} = {"Monday", "Wednesday", "Friday"}
                  => TypesOf(p) = <<"Strength", "Rest", "Cardio", "Rest", "Flexibility",
                                    "Rest", "Rest">>

\* Micro Planning built the week from Monday/Wednesday/Friday and Wednesday
\* got Cardio
C14_Witness ==
    /\ LastExecuted = "micro_planning"
    /\ lastMicro.heuristic
    /\ {d \in DaySet : MarkedAvailable(Val(state.user_availability), d)}
          = {"Monday", "Wednesday", "Friday"}
    /\ Val(lastMicro.validated)["Wednesday"].fields["type"] = "Cardio"

\* C15: _validate_schedule is idempotent: validating what it returned gives
\* the same schedule again, and a schedule that already has exactly the seven
\* weekdays, each with the six fields, is returned as it is.
C15_ValidateIdempotent ==
    (LastExecuted = "micro_planning" /\ ~IsNone(lastMicro.validated)) =>
        /\ ValidateSchedule(Val(lastMicro.validated)) = Val(lastMicro.validated)
        /\ ValidateSchedule(ValidateSchedule(Val(lastMicro.weekly)))
              = ValidateSchedule(Val(lastMicro.weekly))
        /\ CompletePlan(lastMicro.weekly) => lastMicro.validated = lastMicro.weekly

\* Micro Planning validated a week that was complete and carried a field
\* more on Monday
C15_Witness ==
    /\ LastExecuted = "micro_planning"
    /\ ~IsNone(lastMicro.validated)
    /\ CompletePlan(lastMicro.weekly)
    /\ "time" \in DOMAIN Val(lastMicro.weekly)["Monday"].fields

\* C16: when Profile Update's answer does not parse as JSON, the resulting
\* user_profile is the existing profile with the new input written over it:
\* every key of the new input has the new value, every other key of the
\* existing profile keeps its value; existing {age: 30, goal: strength} with
\* new {goal: endurance} gives {age: 30, goal: endurance}.
C16_ProfileUpdateMerge ==
    (/\ call.op = "process"
     /\ call.stage = "profile_update"
     /\ status = "end"
     /\ ~lastAnswer.parsed)
        => LET old == Val(call.state.user_profile)
               new == NewInfo(call.state)
               merged == Val(state.user_profile)
           IN  /\ DOMAIN merged = (DOMAIN old) \cup (DOMAIN new)
               /\ \A k \in DOMAIN new : merged[k] = new[k]
               /\ \A k \in (DOMAIN old) \ (DOMAIN new) : merged[k] = old[k]
               /\ (/\ old = [age |-> Str(<<"30">>), goal |-> Str(<<"strength">>)]
                   /\ new = [goal |-> Str(<<"endurance">>)])
                     => merged = [age |-> Str(<<"30">>), goal |-> Str(<<"endurance">>)]

\* Profile Update merged {goal: endurance} over {age: 30, goal: strength}
C16_Witness ==
    /\ call.op = "process"
    /\ call.stage = "profile_update"
    /\ status = "end"
    /\ ~lastAnswer.parsed
    /\ call.state.user_profile = Some([age |-> Str(<<"30">>), goal |-> Str(<<"strength">>)])
    /\ NewInfo(call.state) = [goal |-> Str(<<"endurance">>)]

\* a step in which Schedule Optimization runs on a draft and returns
OptimizationStep ==
    /\ status = "running"
    /\ node = "schedule_optimization"
    /\ ~IsNone(state.current_micro_plan)
    /\ executed' = Append(executed, "schedule_optimization")
    /\ status' \notin StageErrors

\* C17: when the optimizer's answer is not a parseable JSON object, the micro
\* plan keeps every entry it had, weekdays included, and carries the answer's
\* text under optimization_notes; the micro plan is replaced only when the
\* answer parses as JSON.
C17_OptimizationKeepsDraft ==
    [][OptimizationStep =>
          LET before == Val(state.current_micro_plan)
              after == Val(state'.current_micro_plan)
          IN  IF lastAnswer'.parsed
              THEN TRUE
              ELSE /\ DOMAIN after = (DOMAIN before) \cup {"optimization_notes"}
                   /\ \A k \in (DOMAIN before) \ {"optimization_notes"} : after[k] = before[k]
                   /\ after["optimization_notes"] = Str(lastAnswer'.chars)]_vars

\* the optimizer answered with prose and the complete week Micro Planning
\* made carries it as notes
C17_Witness ==
    /\ LastExecuted = "schedule_optimization"
    /\ lastAnswer.given
    /\ ~lastAnswer.parsed
    /\ ~IsNone(lastMicro.validated)
    /\ \A d \in DaySet : Val(state.current_micro_plan)[d] = Val(lastMicro.validated)[d]
    /\ Val(state.current_micro_plan)["optimization_notes"] = Str(<<"txt">>)

\* what the entry a stage appends says
StageTags(n) ==
    CASE n = "profile_setup" -> {"Profile processed and saved"}
      [] n = "profile_update" -> {"Profile updated successfully"}
      [] n = "macro_planning" -> {"Macro training plan created"}
      [] n = "micro_planning" -> {"Weekly schedule created successfully",
                                  "Created basic fallback schedule due to error"}
      [] n = "schedule_optimization" -> {"Schedule optimized for your availability"}
      [] n = "feedback_processing" -> {"Feedback analyzed and processed"}

\* the stage executions of the run that returned
ReturnedStages == IF status \in StageErrors THEN Len(executed) - 1 ELSE Len(executed)

\* C18: the log is append-only across a run: it is the log the run began
\* with followed by one entry for each stage execution that returned, in
\* the order of execution, on the normal and on the fallback path alike.
C18_LogAppendOnly ==
    (status \notin {"idle", "returned"}) =>
        LET initial == call.state.messages
        IN  /\ Len(state.messages) = Len(initial) + ReturnedStages
            /\ \A i \in 1..Len(initial) : state.messages[i] = initial[i]
            /\ \A k \in 1..ReturnedStages :
                  /\ state.messages[Len(initial) + k].role = "ai"
                  /\ state.messages[Len(initial) + k].tag \in StageTags(executed[k])

\* a run that began with a message ended after Micro Planning took its
\* fallback path and the optimizer ran
C18_Witness ==
    /\ status = "end"
    /\ call.state.messages # <<>>
    /\ executed = <<"profile_setup", "micro_planning", "schedule_optimization">>
    /\ state.messages[Len(state.messages) - 1].tag
          = "Created basic fallback schedule due to error"

\* C20: after Profile Setup returned in a run, the profile the Plan Store
\* holds equals the PlanState's user_profile, on the parsed path and on the
\* fallback path alike.
C20_ProfilePersisted ==
    (LastExecuted = "profile_setup" /\ status \in {"running", "end"})
        => profile = state.user_profile

\* the destination the stage field names
StageDestination(stage) ==
    CASE stage = "profile_update" -> "profile_update"
      [] stage = "macro_planning" -> "macro_planning"
      [] stage = "micro_planning" -> "micro_planning"
      [] stage = "schedule_optimization" -> "schedule_optimization"
      [] stage = "feedback" -> "feedback_processing"
      [] OTHER -> END

\* C21: once Profile Setup has returned, the run continues with the stage
\* the PlanState's stage field names (profile_update, macro_planning,
\* micro_planning, schedule_optimization, feedback) and has ended when the
\* field names none of them: the graph can follow every routing result.
C21_RouteAfterProfileSetup ==
    (/\ executed = <<"profile_setup">>
     /\ status \notin StageErrors \cup {"returned"}
     /\ state.workflow_stage # "profile_setup")
        => LET d == StageDestination(state.workflow_stage)
           IN  IF d = END THEN status = "end" ELSE status = "running" /\ node = d

\* C22: a Micro Planning that saved its schedule created a record: the id it
\* saved under was not the id of a schedule stored when the call began.
C22_MicroPlanningCreatesRecord ==
    (LastExecuted = "micro_planning" /\ ~IsNone(lastMicro.saved))
        => Val(lastMicro.saved) \notin call.stored

\* the transition table
TableSuccessor(n, stage) ==
    CASE n = "macro_planning" -> IF stage = "micro_planning" THEN "micro_planning" ELSE END
      [] n = "micro_planning" -> "schedule_optimization"
      [] n = "schedule_optimization" -> END
      [] n = "profile_update" -> END

\* C23: from every PlanState a run reaches, the node after macro_planning is
\* micro_planning when the stage field is micro_planning and END otherwise,
\* the node after micro_planning is schedule_optimization, the node after
\* schedule_optimization and after profile_update is END; and in every run
\* each execution of micro_planning is followed at once by
\* schedule_optimization, so no run ends directly after micro_planning.
C23_TransitionTable ==
    /\ \A n \in {"macro_planning", "micro_planning", "schedule_optimization", "profile_update"} :
          Successor(n, state) = TableSuccessor(n, state.workflow_stage)
    /\ \A i \in 1..Len(executed) :
          executed[i] = "micro_planning" =>
              IF i = Len(executed)
              THEN status = "running" /\ node = "schedule_optimization"
              ELSE executed[i + 1] = "schedule_optimization"

\* a create_weekly_schedule run executed micro_planning, then
\* schedule_optimization, and ended there
C23_Witness ==
    /\ status = "end"
    /\ executed = <<"profile_setup", "micro_planning", "schedule_optimization">>
    /\ call.op = "create_weekly_schedule"

\* C26: a run that executed Micro Planning and then Schedule Optimization
\* and ended has a current_micro_plan whose keys are exactly the seven
\* weekdays, each a record holding the six fields, whatever the optimizer's
\* service answered.
C26_OptimizedPlanComplete ==
    (/\ status = "end"
     /\ Len(executed) >= 2
     /\ executed[Len(executed) - 1] = "micro_planning"
     /\ LastExecuted = "schedule_optimization")
        => CompletePlan(state.current_micro_plan)

\* C29: when create_weekly_schedule or create_macro_plan has returned, the
\* stored profile is the profile that was stored when the call began.
C29_ProfileUnchanged ==
    (call.op \in {"create_weekly_schedule", "create_macro_plan"} /\ status = "returned")
        => profile = call.profile

----------------------------------------------------------------------------
(* The Plan Store driven call by call (the facade's save_schedule,           *)
(* activate_schedule and the macro plan save)                                *)

StoreInit ==
    /\ now = 0
    /\ profile = None
    /\ macros = EmptyDict
    /\ schedules = EmptyDict
    /\ feedback = <<>>
    /\ lastOp = NoOp
    /\ engineIdle

\* AIFitnessCoach.save_schedule -> save_weekly_schedule
SaveScheduleCall ==
    \E sched \in ScheduleInputs, dt \in 1..TicksPerSecond :
        /\ now + dt <= MaxClock
        /\ now' = now + dt
        /\ \E mp \in GetActiveMacroPlan(macros) :
              schedules' = SaveWeeklySchedule(schedules, sched, now', mp)
        /\ lastOp' = [NoOp EXCEPT !.name = "save_weekly_schedule",
                                  !.id = Some(ScheduleIdFor(sched, now')),
                                  !.stored = DOMAIN schedules,
                                  !.active = ActiveIds(schedules)]
        /\ UNCHANGED <<procs, search, profile, macros, feedback, engineVars>>

\* AIFitnessCoach.activate_schedule -> set_schedule_active
ActivateScheduleCall ==
    \E id \in 0..IdAt(MaxClock) :
        /\ schedules' = SetScheduleActive(schedules, id)
        /\ lastOp' = [NoOp EXCEPT !.name = "set_schedule_active",
                                  !.id = Some(id),
                                  !.stored = DOMAIN schedules,
                                  !.active = ActiveIds(schedules)]
        /\ UNCHANGED <<procs, search, now, profile, macros, feedback, engineVars>>

\* save_macro_plan
SaveMacroPlanCall ==
    \E text \in MacroTexts, dt \in 1..TicksPerSecond :
        /\ now + dt <= MaxClock
        /\ now' = now + dt
        /\ macros' = SaveMacroPlan(macros, text, now')
        /\ lastOp' = [NoOp EXCEPT !.name = "save_macro_plan",
                                  !.id = Some(IdAt(now')),
                                  !.text = Some(text),
                                  !.stored = DOMAIN macros]
        /\ UNCHANGED <<procs, search, profile, schedules, feedback, engineVars>>

\* the schedule files under save_schedule and activate_schedule
ScheduleStoreNext == SaveScheduleCall \/ ActivateScheduleCall

ScheduleStoreSpec == StoreInit /\ [][ScheduleStoreNext]_vars

\* the macro plan files under save_macro_plan
MacroStoreNext == SaveMacroPlanCall

MacroStoreSpec == StoreInit /\ [][MacroStoreNext]_vars

----------------------------------------------------------------------------
(* Claims about the Plan Store *)

\* C4: after any sequence of completed save_weekly_schedule and
\* set_schedule_active calls, at most one stored schedule has status active.
\* (save_weekly_schedule copies the status of the record it is given, so two
\* records saved as active are both active.)
C4_AtMostOneActive == Cardinality(ActiveIds(schedules)) <= 1

ActiveMacroIds == {i \in DOMAIN macros : macros[i].status = "active"}

\* C5: after any sequence of N >= 1 save_macro_plan calls exactly one stored
\* macro plan is active, it holds the text of the last call, and
\* get_active_macro_plan returns it; every other stored plan is inactive.
C5_LastMacroPlanActive ==
    lastOp.name = "save_macro_plan" =>
        /\ ActiveMacroIds = {Val(lastOp.id)}
        /\ macros[Val(lastOp.id)].macro_plan = Val(lastOp.text)
        /\ GetActiveMacroPlan(macros) = {Some(macros[Val(lastOp.id)])}
        /\ \A i \in (DOMAIN macros) \ {Val(lastOp.id)} : macros[i].status = "inactive"

\* C5's case: a third plan saved over two stored ones, one of which holds the
\* other text
C5_Witness ==
    /\ lastOp.name = "save_macro_plan"
    /\ Cardinality(lastOp.stored) >= 2
    /\ \E i \in DOMAIN macros : macros[i].macro_plan # Val(lastOp.text)

\* the three newest of the stored schedules ss
ThreeNewest(ss) == {i \in DOMAIN ss : Cardinality(NewerThan(ss, i)) < KeepSchedules - 1}

\* C6: after every save_weekly_schedule at most 4 schedules are stored and
\* the ones retained are the most recently created: the record just written
\* is kept, the other kept records are unchanged, every deleted record is
\* older than every kept one, and a record is deleted only when 4 remain.
\* Saving a schedule with a new id when 4 are stored leaves exactly the new
\* one and the 3 newest of the previous 4.
C6_Retention ==
    [][(now' # now /\ lastOp'.name = "save_weekly_schedule") =>
          LET id == Val(lastOp'.id)
              written == (DOMAIN schedules) \cup {id}
              kept == DOMAIN schedules'
          IN  /\ Cardinality(kept) <= KeepSchedules
              /\ id \in kept
              /\ schedules'[id].created_at = now'
              /\ kept \subseteq written
              /\ \A i \in kept \ {id} : schedules'[i] = schedules[i]
              /\ \A d \in written \ kept : \A k \in kept :
                     schedules[d].created_at < schedules'[k].created_at
              /\ (written \ kept # {}) => Cardinality(kept) = KeepSchedules
              /\ (Cardinality(DOMAIN schedules) = KeepSchedules /\ id \notin DOMAIN schedules)
                     => kept = {id} \cup ThreeNewest(schedules)
      ]_vars

\* C6's case: a save under a new id with 4 schedules stored
C6_Witness ==
    /\ lastOp.name = "save_weekly_schedule"
    /\ Cardinality(lastOp.stored) = KeepSchedules
    /\ Val(lastOp.id) \notin lastOp.stored
    /\ Cardinality(DOMAIN schedules) = KeepSchedules
    /\ lastOp.stored \ DOMAIN schedules # {}

\* C7: if a schedule A is active and set_schedule_active(B) is called for a
\* stored schedule B, then afterwards B is the one active schedule and A, like
\* every other schedule, is inactive.
C7_ActivateLeavesOnlyB ==
    (/\ lastOp.name = "set_schedule_active"
     /\ Val(lastOp.id) \in lastOp.stored
     /\ lastOp.active # {})
    => /\ ActiveIds(schedules) = {Val(lastOp.id)}
       /\ \A i \in (DOMAIN schedules) \ {Val(lastOp.id)} : schedules[i].status = "inactive"

\* C7's case: B activated while another stored schedule A was active
C7_Witness ==
    /\ lastOp.name = "set_schedule_active"
    /\ Val(lastOp.id) \in lastOp.stored
    /\ \E a \in lastOp.active : a # Val(lastOp.id) /\ a \in DOMAIN schedules

\* C19: get_active_schedule returns a schedule stored with status active
\* when there is one, even if newer schedules are stored that are not
\* active; otherwise the stored schedule created last; and None exactly when
\* no schedule is stored.
C19_GetActiveSchedule ==
    \A r \in GetActiveSchedule(schedules) :
        /\ IsNone(r) <=> DOMAIN schedules = {}
        /\ ~IsNone(r) =>
              \E i \in DOMAIN schedules :
                 /\ Val(r) = schedules[i].schedule
                 /\ IF \E j \in DOMAIN schedules : schedules[j].status = "active"
                    THEN schedules[i].status = "active"
                    ELSE \A j \in DOMAIN schedules :
                            schedules[j].created_at <= schedules[i].created_at

\* one active schedule is stored, a schedule created later is not active,
\* and the active one is what get_active_schedule returns
C19_Witness ==
    \E i, j \in DOMAIN schedules :
        /\ ActiveIds(schedules) = {i}
        /\ schedules[j].created_at > schedules[i].created_at
        /\ GetActiveSchedule(schedules) = {Some(schedules[i].schedule)}

\* C27: a save_weekly_schedule under another id keeps every schedule that
\* was active before it: the cleanup it triggers deletes none of them, each
\* is still stored and active after the save.
C27_CleanupKeepsActive ==
    (lastOp.name = "save_weekly_schedule" /\ Val(lastOp.id) \notin lastOp.active)
        => lastOp.active \subseteq ActiveIds(schedules)

\* C28: set_schedule_active with an id that was not stored leaves the status
\* of every stored schedule as it was: the schedules active before the call
\* are the schedules active after it.
C28_UnknownIdChangesNothing ==
    (lastOp.name = "set_schedule_active" /\ Val(lastOp.id) \notin lastOp.stored)
        => ActiveIds(schedules) = lastOp.active

----------------------------------------------------------------------------
(* The Plan Store's read-modify-write sequences, file access by file access *)
(* (set_schedule_active and save_macro_plan): each json.load and each       *)
(* json.dump is one step, a process can stop between any two of them, and   *)
(* two calls can interleave                                                 *)

\* the store holds the files 0..MaxFiles-1 of each kind
MaxFiles == 3
FileIds == 0..(MaxFiles - 1)

\* a schedule file and a macro plan file with the given status
StoredSchedule(i, s) ==
    ScheduleFile([schedule_id |-> Some(i), status |-> Some(s), micro_plan |-> Some(PlanTag),
                  macro_plan_id |-> None, macro_plan |-> None, user_availability |-> None],
                 i * TicksPerSecond, None)
StoredMacroPlan(i, s) ==
    [plan_id |-> i, macro_plan |-> "plan A", created_at |-> i * TicksPerSecond, status |-> s]

\* the stores with at most one active record
ScheduleFileStores ==
    {[i \in FileIds |-> StoredSchedule(i, f[i])] :
        f \in {g \in [FileIds -> {"draft", "inactive", "active"}] :
                  Cardinality({i \in FileIds : g[i] = "active"}) <= 1}}
MacroFileStores ==
    {[i \in FileIds |-> StoredMacroPlan(i, f[i])] :
        f \in {g \in [FileIds -> {"inactive", "active"}] :
                  Cardinality({i \in FileIds : g[i] = "active"}) <= 1}}

FileInit ==
    /\ now = 0
    /\ profile = None
    /\ macros \in MacroFileStores
    /\ schedules \in ScheduleFileStores
    /\ feedback = <<>>
    /\ lastOp = NoOp
    /\ engineIdle

\* a call in flight: its position, the files its glob listed and has not
\* rewritten yet, the file it read and the data it holds, the record it will
\* write; writes and was are history: the writes it made, the ids active when
\* it began
Proc(op, target, new, was) ==
    [op |-> op, target |-> target, pc |-> "glob", todo |-> {}, file |-> None, data |-> None,
     new |-> new, writes |-> 0, was |-> was]

\* a bug that writes the file back as it was read
DeactivatedKeepsStatus(data) == data

\* data["status"] = "inactive" and data["status"] = "active"
Deactivated(data) == [data EXCEPT !.status = "inactive"]
Activated(data) == [data EXCEPT !.status = "active"]

InFlight == {i \in 1..Len(procs) : procs[i].pc \notin {"done", "crashed"}}

fileFrame == <<now, profile, feedback, lastOp, engineVars, search>>

\* set_schedule_active(schedule_id) begins
CallSetScheduleActive ==
    /\ procs = NoProcs
    /\ \E id \in 0..MaxFiles :
          procs' = Append(procs, Proc("set_schedule_active", id, None, ActiveIds(schedules)))
    /\ UNCHANGED <<macros, schedules, fileFrame>>

\* save_macro_plan(macro_plan) begins: plan_id and macro_data are built
CallSaveMacroPlan ==
    /\ procs = NoProcs
    /\ \E text \in MacroTexts, dt \in 1..TicksPerSecond :
          /\ now + dt <= MaxClock
          /\ now' = now + dt
          /\ procs' = Append(procs,
                             Proc("save_macro_plan", IdAt(now'),
                                  Some([plan_id |-> IdAt(now'), macro_plan |-> text,
                                        created_at |-> now', status |-> "active"]),
                                  ActiveMacroIds))
    /\ UNCHANGED <<macros, schedules, profile, feedback, lastOp, engineVars, search>>

\* two set_schedule_active calls for two different stored schedules begin
RaceCall ==
    /\ Len(procs) < 2
    /\ \E id \in DOMAIN schedules :
          /\ \A i \in 1..Len(procs) : procs[i].target # id
          /\ procs' = Append(procs, Proc("set_schedule_active", id, None, ActiveIds(schedules)))
    /\ UNCHANGED <<macros, schedules, fileFrame>>

\* the glob lists the directory
Glob ==
    \E i \in 1..Len(procs) :
        /\ procs[i].pc = "glob"
        /\ procs' = [procs EXCEPT ![i].pc = "loop",
                                  ![i].todo = IF procs[i].op = "save_macro_plan"
                                              THEN DOMAIN macros ELSE DOMAIN schedules]
        /\ UNCHANGED <<macros, schedules, fileFrame>>

\* the loop opens the next file, in the glob's order, and json.load reads it
ReadFile ==
    \E i \in 1..Len(procs) :
        /\ procs[i].pc = "loop"
        /\ \E f \in procs[i].todo :
              procs' = [procs EXCEPT ![i].pc = "write",
                                     ![i].todo = @ \ {f},
                                     ![i].file = Some(f),
                                     ![i].data = Some(IF procs[i].op = "save_macro_plan"
                                                      THEN macros[f] ELSE schedules[f])]
        /\ UNCHANGED <<macros, schedules, fileFrame>>

\* json.dump writes the file back with status inactive
WriteFile ==
    \E i \in 1..Len(procs) :
        /\ procs[i].pc = "write"
        /\ IF procs[i].op = "save_macro_plan"
           THEN /\ macros' = [macros EXCEPT ![Val(procs[i].file)] = Deactivated(Val(procs[i].data))]
                /\ UNCHANGED schedules
           ELSE /\ schedules' = [schedules EXCEPT
                                    ![Val(procs[i].file)] = Deactivated(Val(procs[i].data))]
                /\ UNCHANGED macros
        /\ procs' = [procs EXCEPT ![i].pc = "loop", ![i].writes = @ + 1]
        /\ UNCHANGED fileFrame

\* after the loop, set_schedule_active: schedule_file.exists() and json.load
ReadTarget ==
    \E i \in 1..Len(procs) :
        /\ procs[i].op = "set_schedule_active"
        /\ procs[i].pc = "loop"
        /\ procs[i].todo = {}
        /\ procs' = IF procs[i].target \in DOMAIN schedules
                    THEN [procs EXCEPT ![i].pc = "activate",
                                       ![i].data = Some(schedules[procs[i].target])]
                    ELSE [procs EXCEPT ![i].pc = "done"]
        /\ UNCHANGED <<macros, schedules, fileFrame>>

\* json.dump writes the target back with status active
WriteTarget ==
    \E i \in 1..Len(procs) :
        /\ procs[i].pc = "activate"
        /\ schedules' = [schedules EXCEPT ![procs[i].target] = Activated(Val(procs[i].data))]
        /\ procs' = [procs EXCEPT ![i].pc = "done", ![i].writes = @ + 1]
        /\ UNCHANGED <<macros, fileFrame>>

\* after the loop, save_macro_plan: json.dump writes the new plan's file
WriteNewPlan ==
    \E i \in 1..Len(procs) :
        /\ procs[i].op = "save_macro_plan"
        /\ procs[i].pc = "loop"
        /\ procs[i].todo = {}
        /\ macros' = Put(macros, procs[i].target, Val(procs[i].new))
        /\ procs' = [procs EXCEPT ![i].pc = "done", ![i].writes = @ + 1]
        /\ UNCHANGED <<schedules, fileFrame>>

\* the process stops between two file accesses
Crash ==
    \E i \in InFlight :
        /\ procs' = [procs EXCEPT ![i].pc = "crashed"]
        /\ UNCHANGED <<macros, schedules, fileFrame>>

\* one call, made by a process that can crash
CrashNext ==
    \/ CallSetScheduleActive
    \/ CallSaveMacroPlan
    \/ Glob
    \/ ReadFile
    \/ WriteFile
    \/ ReadTarget
    \/ WriteTarget
    \/ WriteNewPlan
    \/ Crash

CrashSpec == FileInit /\ [][CrashNext]_vars

\* the schedule files of FileInit, and no macro plan active
RaceInit == FileInit /\ ActiveMacroIds = {}

\* two set_schedule_active calls interleaved
RaceNext ==
    \/ RaceCall
    \/ Glob
    \/ ReadFile
    \/ WriteFile
    \/ ReadTarget
    \/ WriteTarget

RaceSpec == RaceInit /\ [][RaceNext]_vars

Crashed == {i \in 1..Len(procs) : procs[i].pc = "crashed"}

\* C24 (as the code behaves): from a store with at most one active schedule
\* and at most one active macro plan, a process that crashes between the file
\* writes of set_schedule_active or save_macro_plan leaves at most one
\* schedule and at most one macro plan active: possibly none, never more than
\* one. The same holds at every point of the sequence.
C24_CrashLeavesAtMostOneActive ==
    /\ Cardinality(ActiveIds(schedules)) <= 1
    /\ Cardinality(ActiveMacroIds) <= 1

\* set_schedule_active crashed after it deactivated the active schedule and
\* before it activated its target: no schedule is active
C24_Witness ==
    \E i \in Crashed :
        /\ procs[i].op = "set_schedule_active"
        /\ procs[i].was # {}
        /\ procs[i].writes > 0
        /\ procs[i].target \in DOMAIN schedules
        /\ ActiveIds(schedules) = {}

\* C24 (as stated): a crash after the first write and before the last write
\* of the sequence leaves more than one record active.
C24_CrashLeavesSeveralActive ==
    \A i \in Crashed :
        procs[i].writes > 0 =>
            \/ Cardinality(ActiveIds(schedules)) > 1
            \/ Cardinality(ActiveMacroIds) > 1

\* C30: once two interleaved set_schedule_active calls for two different
\* stored schedules have both completed, at most one schedule is active.
C30_RaceLeavesOneActive ==
    (Len(procs) = 2 /\ \A i \in 1..2 : procs[i].pc = "done")
        => Cardinality(ActiveIds(schedules)) <= 1

----------------------------------------------------------------------------
(* The Availability Provider's slot search                                  *)
(* (integrations/google_calendar.py): instants are whole numbers, a busy    *)
(* period and a window are intervals [start, end)                           *)

\* instants are 0..MaxTime
MaxTime == 5
\* get_busy_times returns at most this many busy periods
MaxBusy == 2
\* duration_minutes is 1..MaxDuration
MaxDuration == 2

Times == 0..MaxTime
Intervals == {iv \in [start : Times, end : Times] : iv.start < iv.end}

\* what get_busy_times returns: the busy periods of the calendars, calendar
\* by calendar; periods of different calendars can overlap or nest
BusyTimes == UNION {[1..n -> Intervals] : n \in 0..MaxBusy}

Earlier(a, b) == IF a <= b THEN a ELSE b

\* list.sort(key=start) is stable: b goes behind the periods that start no
\* later than it
InsertByStart(sorted, b) ==
    LET k == Cardinality({i \in 1..Len(sorted) : sorted[i].start <= b.start})
    IN  SubSeq(sorted, 1, k) \o <<b>> \o SubSeq(sorted, k + 1, Len(sorted))

RECURSIVE SortByStart(_)
SortByStart(s) ==
    IF s = <<>> THEN <<>>
    ELSE InsertByStart(SortByStart(SubSeq(s, 1, Len(s) - 1)), s[Len(s)])

\* the busy periods that overlap the window, sorted by start
RelevantBusy(window_start, window_end, busy_times) ==
    LET Overlaps(busy) == ~(busy.end <= window_start \/ busy.start >= window_end)
    IN  SortByStart(SelectSeq(busy_times, Overlaps))

\* the dict appended to slots
SlotFrom(start, slot_duration, gap_end) ==
    [start |-> start, end |-> start + slot_duration, available_duration |-> gap_end - start]

\* the slots between relevant_busy[i] and relevant_busy[i + 1], from i on
RECURSIVE SlotsBetween(_, _, _)
SlotsBetween(relevant_busy, i, slot_duration) ==
    IF i > Len(relevant_busy) - 1 THEN <<>>
    ELSE LET gap_start == relevant_busy[i].end
             gap_end == relevant_busy[i + 1].start
         IN  (IF gap_start < gap_end /\ gap_end - gap_start >= slot_duration
              THEN <<SlotFrom(gap_start, slot_duration, gap_end)>>
              ELSE <<>>)
             \o SlotsBetween(relevant_busy, i + 1, slot_duration)

\* _find_slots_in_window
FindSlotsInWindow(window_start, window_end, slot_duration, busy_times) ==
    LET relevant_busy == RelevantBusy(window_start, window_end, busy_times)
        n == Len(relevant_busy)
        before ==
            IF n > 0 /\ relevant_busy[1].start > window_start
            THEN LET potential_end == Earlier(relevant_busy[1].start, window_end)
                 IN  IF potential_end - window_start >= slot_duration
                     THEN <<SlotFrom(window_start, slot_duration, potential_end)>>
                     ELSE <<>>
            ELSE <<>>
        after ==
            IF n > 0
            THEN LET last_busy_end == relevant_busy[n].end
                 IN  IF last_busy_end < window_end /\ window_end - last_busy_end >= slot_duration
                     THEN <<SlotFrom(last_busy_end, slot_duration, window_end)>>
                     ELSE <<>>
            ELSE IF window_end - window_start >= slot_duration
            THEN <<SlotFrom(window_start, slot_duration, window_end)>>
            ELSE <<>>
    IN  before \o SlotsBetween(relevant_busy, 1, slot_duration) \o after

\* find_available_slots searches one of its windows with the busy periods
\* get_busy_times returned
FindSlotsCall ==
    /\ IsNone(search)
    /\ \E window \in Intervals, duration \in 1..MaxDuration, busy_times \in BusyTimes :
          search' = Some([window |-> window, duration |-> duration, busy_times |-> busy_times,
                          slots |-> FindSlotsInWindow(window.start, window.end, duration,
                                                      busy_times)])
    /\ UNCHANGED <<now, profile, macros, schedules, feedback, lastOp, engineVars, procs>>

SlotNext == FindSlotsCall

SlotSpec == StoreInit /\ [][SlotNext]_vars

\* C25: every slot the search returned lies inside the window and overlaps
\* none of the busy periods it was given, nested and overlapping ones
\* included.
C25_SlotsAreFree ==
    ~IsNone(search) =>
        LET s == Val(search)
        IN  \A i \in 1..Len(s.slots) :
                /\ s.window.start <= s.slots[i].start
                /\ s.slots[i].end <= s.window.end
                /\ \A j \in 1..Len(s.busy_times) :
                      \/ s.slots[i].end <= s.busy_times[j].start
                      \/ s.busy_times[j].end <= s.slots[i].start

====
